---- MODULE Spec2Model ----
(***************************************************************************)
(* FundDataService (fund_data_service.py): the five public operations as   *)
(* one call each, from an idle service, on what the data provider returns  *)
(* for that call and on the clock read during it.                          *)
(*                                                                         *)
(* Dates are whole days; a timestamp is a number of clock ticks, a day     *)
(* being TicksPerDay ticks, so that datetime.now() can fall between two    *)
(* midnights.  A net value is a whole number of thousandths (1.100 is      *)
(* 1100).  Floating point is modelled by exact fractions plus the IEEE     *)
(* values inf, -inf and nan that numpy yields on a division by zero; a     *)
(* formatted number keeps its sign and its two decimals.                   *)
(***************************************************************************)
EXTENDS Integers, Sequences, FiniteSets, TLC

VARIABLES pc, op, fetched, now, result

vars == <<pc, op, fetched, now, result>>

\* ------------------------------------------------------------------ bounds
MaxRows == 3
MaxLong == 32
TicksPerDay == 2
MaxHoldings == 6

\* ------------------------------------------------------- program constants
KeepDays == 365
WeekDays == 7
MonthDays == 30
QuarterDays == 90
YearDays == 365
MinReturns == 30
TopHoldings == 5
TradingDays == 252
RiskFreePercent == 3

NoData == "no data"
Insufficient == "insufficient data"
PortfolioFailed == "portfolio fetch failed"
NoHoldings == "no holdings"
Unknown == "unknown"

Labels == {"1w", "1m", "3m", "1y"}

Lookback == [l \in Labels |->
    CASE l = "1w" -> WeekDays
      [] l = "1m" -> MonthDays
      [] l = "3m" -> QuarterDays
      [] OTHER    -> YearDays]

\* --------------------------------------------------------- control outcomes
\* A Python call either raises or returns a value.
Raise == [exc |-> TRUE, value |-> <<>>]

Return(v) == [exc |-> FALSE, value |-> v]

\* try: body / except Exception: return default
TryExcept(body, default) == IF body.exc THEN Return(default) ELSE body

\* -------------------------------------------------------------- arithmetic
Fin(n, d) == [k |-> "fin", n |-> n, d |-> d]
NaN == [k |-> "nan", n |-> 0, d |-> 1]
Inf == [k |-> "inf", n |-> 0, d |-> 1]
NegInf == [k |-> "-inf", n |-> 0, d |-> 1]

Abs(n) == IF n < 0 THEN -n ELSE n

\* a / b on numpy floats: a zero divisor gives inf, -inf or nan, never raises.
FDiv(a, b) ==
    IF b = 0 THEN (IF a = 0 THEN NaN ELSE IF a > 0 THEN Inf ELSE NegInf)
    ELSE IF b > 0 THEN Fin(a, b) ELSE Fin(-a, -b)

FTimes100(f) == IF f.k = "fin" THEN Fin(f.n * 100, f.d) ELSE f

FLess(a, b) == a.n * b.d < b.n * a.d

FEqual(a, b) == a.k = b.k /\ a.n * b.d = b.n * a.d

RoundHalfEven(n, d) ==
    LET q == n \div d
        r == n % d
    IN  IF 2 * r < d THEN q
        ELSE IF 2 * r > d THEN q + 1
        ELSE IF q % 2 = 0 THEN q ELSE q + 1

\* A string the service returns: a sentinel text, or a number formatted to
\* two decimals (sign, hundredths, suffix), or one of inf / -inf / nan.
Text(s) == [kind |-> "text", neg |-> FALSE, hundredths |-> 0, text |-> s, suffix |-> ""]

\* f"{x:.2f}" followed by suffix
Format2(f, suffix) ==
    IF f.k = "fin"
    THEN [kind |-> "num", neg |-> f.n < 0,
          hundredths |-> RoundHalfEven(Abs(f.n) * 100, f.d),
          text |-> "", suffix |-> suffix]
    ELSE [kind |-> "special", neg |-> FALSE, hundredths |-> 0,
          text |-> f.k, suffix |-> suffix]

\* ------------------------------------------------------------ table helpers
Empty(df) == df = <<>>

\* .iloc[i] (i = -1 is the last row): IndexError on an empty selection.
Iloc(df, i) ==
    IF Empty(df) THEN Raise
    ELSE Return(IF i < 0 THEN df[Len(df) + 1 + i] ELSE df[i + 1])

\* pd.to_datetime of a date / timedelta(days=n), in clock ticks
ToDatetime(day) == day * TicksPerDay

Timedelta(days) == days * TicksPerDay

\* pd.to_numeric of a parseable decimal string: its value in thousandths
ToNumeric(nav) == nav

Clean(rows) ==
    [i \in DOMAIN rows |->
        [date |-> ToDatetime(rows[i].date), nav |-> ToNumeric(rows[i].nav)]]

\* Mutant: the one-year filter forgotten.
KeepAll(df, one_year_ago) == df

\* df[df[date] >= one_year_ago]
KeepRecent(df, one_year_ago) == SelectSeq(df, LAMBDA r : r.date >= one_year_ago)

\* Mutant: the table left in the provider's order.
Unsorted(df) == {df}

RECURSIVE SortedFrom(_, _)
SortedFrom(df, idx) ==
    IF idx = {} THEN {<<>>}
    ELSE LET least == CHOOSE d \in {df[i].date : i \in idx} :
                         \A j \in idx : d <= df[j].date
             first == {i \in idx : df[i].date = least}
         IN  UNION {{<<df[i]>> \o s : s \in SortedFrom(df, idx \ {i})} : i \in first}

\* df.sort_values(date): ascending by date; the default sort is not stable,
\* so rows of one date may come out in any order.
SortValues(df) == SortedFrom(df, DOMAIN df)

\* df[date].max() of a non-empty table
MaxDate(df) == CHOOSE d \in {df[i].date : i \in DOMAIN df} :
                  \A i \in DOMAIN df : df[i].date <= d

\* ------------------------------------------------------ get_fund_net_value
NetValueBody(ak, clock) ==
    IF ak.raises \/ ~ak.table.cols THEN Raise
    ELSE LET df == Clean(ak.table.rows)
             one_year_ago == clock - Timedelta(KeepDays)
         IN  Return(KeepRecent(df, one_year_ago))

\* Mutant: the fetch and the cleaning outside any try block.
NetValueUncaught(ak, clock) == NetValueBody(ak, clock)

get_fund_net_value(ak, clock) == TryExcept(NetValueBody(ak, clock), <<>>)

\* --------------------------------------------------- calculate_fund_return
\* Mutant: the wrong sentinel for an empty series.
AllInsufficient == [l \in Labels |-> Text(Insufficient)]

AllNoData == [l \in Labels |-> Text(NoData)]

\* Mutant: an entry dated exactly at the cutoff left out.
PeriodDfStrict(df, period_date) == SelectSeq(df, LAMBDA r : r.date < period_date)

\* df[df[date] <= period_date]
PeriodDf(df, period_date) == SelectSeq(df, LAMBDA r : r.date <= period_date)

\* df[df[date] == latest_date] of a sorted, non-empty table
LatestRows(df) ==
    IF Empty(df) THEN <<>>
    ELSE SelectSeq(df, LAMBDA r : r.date = MaxDate(df))

return_rate(latest_net, period_net) ==
    FTimes100(FDiv(latest_net - period_net, period_net))

\* The loop body for one label, on the sorted table.
PeriodReturn(df, latest_date, latest_net, l) ==
    LET period_date == latest_date - Timedelta(Lookback[l])
        period_df == PeriodDf(df, period_date)
    IN  IF ~Empty(period_df)
        THEN Format2(return_rate(latest_net, Iloc(period_df, -1).value.nav), "%")
        ELSE Text(Insufficient)

\* Lines 37-61, on one outcome df of the sort.
ReturnsOfSorted(df) ==
    LET latest == Iloc(LatestRows(df), 0)
    IN  IF latest.exc THEN Raise
        ELSE Return([l \in Labels |->
                 PeriodReturn(df, MaxDate(df), latest.value.nav, l)])

\* The results calculate_fund_return can give (one per outcome of the sort).
calculate_fund_return(ak, clock) ==
    LET got == get_fund_net_value(ak, clock)
    IN  IF got.exc THEN {Raise}
        ELSE IF Empty(got.value) THEN {Return(AllNoData)}
        ELSE {ReturnsOfSorted(df) : df \in SortValues(got.value)}

\* ---------------------------------------------------- calculate_risk_index
Navs(df) == [i \in DOMAIN df |-> df[i].nav]

MaxOf(S) == CHOOSE m \in S : \A x \in S : x <= m

\* Mutant: the maximum of the whole series instead of the running maximum.
WholeMax(vals) == [i \in DOMAIN vals |-> MaxOf({vals[j] : j \in DOMAIN vals})]

\* Series.cummax(): the largest value up to and including each point
Cummax(vals) == [i \in DOMAIN vals |-> MaxOf({vals[j] : j \in 1..i})]

\* (nav - running max) / running max * 100, point by point
Drawdowns(vals) ==
    LET peak == Cummax(vals)
    IN  [i \in DOMAIN vals |-> FTimes100(FDiv(vals[i] - peak[i], peak[i]))]

\* Mutant: .max() in place of .min().
MaxSkipNa(fs) ==
    LET S == {fs[i] : i \in {j \in DOMAIN fs : fs[j].k # "nan"}}
    IN  IF S = {} THEN NaN ELSE CHOOSE m \in S : \A x \in S : ~FLess(m, x)

\* Series.min(): nan entries are skipped; nan when nothing is left
MinSkipNa(fs) ==
    LET S == {fs[i] : i \in {j \in DOMAIN fs : fs[j].k # "nan"}}
    IN  IF S = {} THEN NaN ELSE CHOOSE m \in S : \A x \in S : ~FLess(x, m)

max_drawdown(df) == MinSkipNa(Drawdowns(Navs(df)))

\* Series.pct_change(): nan for the first point, then the change against
\* the previous point
PctChange(vals) ==
    [i \in DOMAIN vals |->
        IF i = 1 THEN NaN ELSE FDiv(vals[i] - vals[i - 1], vals[i - 1])]

DropNa(fs) == SelectSeq(fs, LAMBDA f : f.k # "nan")

daily_returns(df) == DropNa(PctChange(Navs(df)))

\* Mutant: <= in place of <.
TooFewInclusive(dr) == Len(dr) <= MinReturns

\* len(daily_returns) < 30
TooFew(dr) == Len(dr) < MinReturns

\* Mutant: the zero-deviation guard left out.
StdNeverZero(dr) == TRUE

\* daily_returns.std() != 0 on at least two returns.  An infinite return
\* makes the deviation nan, and nan != 0; finite returns have deviation 0
\* exactly when they are all equal.
StdNonZero(dr) ==
    \/ \E i \in DOMAIN dr : dr[i].k # "fin"
    \/ \E i \in DOMAIN dr : ~FEqual(dr[i], dr[1])

\* (mean * 252 - 0.03) / (std * sqrt(252)), formatted.  With an infinite
\* return the quotient is nan; with a zero deviation it is the division of
\* the numerator by zero; otherwise its digits are left unevaluated.
SharpeQuotient(dr) ==
    IF \E i \in DOMAIN dr : dr[i].k # "fin" THEN Format2(NaN, "")
    ELSE IF \E i \in DOMAIN dr : ~FEqual(dr[i], dr[1])
    THEN [kind |-> "ratio", neg |-> FALSE, hundredths |-> 0,
          text |-> "", suffix |-> ""]
    ELSE Format2(FDiv(dr[1].n * TradingDays * 100 - RiskFreePercent * dr[1].d, 0), "")

sharpe(dr) ==
    IF TooFew(dr) THEN Text(Insufficient)
    ELSE IF StdNonZero(dr) THEN SharpeQuotient(dr)
    ELSE Format2(Fin(0, 1), "")

AllNoDataRisk == [max_drawdown |-> Text(NoData), sharpe |-> Text(NoData)]

\* Lines 83-103, on one outcome df of the sort.
RiskOfSorted(df) ==
    Return([max_drawdown |-> Format2(max_drawdown(df), "%"),
            sharpe |-> sharpe(daily_returns(df))])

\* The results calculate_risk_index can give (one per outcome of the sort).
calculate_risk_index(ak, clock) ==
    LET got == get_fund_net_value(ak, clock)
    IN  IF got.exc THEN {Raise}
        ELSE IF Empty(got.value) THEN {Return(AllNoDataRisk)}
        ELSE {RiskOfSorted(df) : df \in SortValues(got.value)}

\* ------------------------------------------------------ get_fund_portfolio
\* df.head(5)[[code, name, share]].to_string(index=False)
top5_hold(rows) ==
    LET n == IF Len(rows) < TopHoldings THEN Len(rows) ELSE TopHoldings
    IN  [kind |-> "table",
         rows |-> [i \in 1..n |-> [code |-> rows[i].code, name |-> rows[i].name,
                                   share |-> rows[i].share]]]

PortfolioBody(ak) ==
    IF ak.raises THEN Raise
    ELSE IF Empty(ak.table.rows) THEN Return(Text(NoHoldings))
    ELSE IF ~ak.table.cols THEN Raise
    ELSE Return(top5_hold(ak.table.rows))

get_fund_portfolio(ak) == TryExcept(PortfolioBody(ak), Text(PortfolioFailed))

\* ----------------------------------------------------- get_fund_basic_info
UnknownInfo == [name |-> Unknown, fund_type |-> Unknown]

\* df[df[item] == key][value].iloc[0] if key in df[item].values else unknown
InfoField(rows, key) ==
    LET hit == SelectSeq(rows, LAMBDA r : r.item = key)
    IN  IF ~Empty(hit) THEN Iloc(hit, 0).value.value ELSE Unknown

BasicInfoBody(ak) ==
    IF ak.raises THEN Raise
    ELSE IF Empty(ak.table.rows) THEN Return(UnknownInfo)
    ELSE IF ~ak.table.cols THEN Raise
    ELSE Return([name |-> InfoField(ak.table.rows, "fund full name"),
                 fund_type |-> InfoField(ak.table.rows, "fund type")])

get_fund_basic_info(ak) == TryExcept(BasicInfoBody(ak), UnknownInfo)

\* ------------------------------------------------- what the provider returns
SeqsUpTo(S, n) == UNION {[1..k -> S] : k \in 0..n}

Failure == [raises |-> TRUE, table |-> [cols |-> FALSE, rows |-> <<>>]]

Fetches(tables) == {Failure} \cup {[raises |-> FALSE, table |-> t] : t \in tables}

\* A table with no rows and no columns (what the provider gives for an
\* unknown fund), or a table with the expected columns.
Tables(rowseqs) ==
    {[cols |-> FALSE, rows |-> <<>>]} \cup {[cols |-> TRUE, rows |-> r] : r \in rowseqs}

Days == {-345, 10, 20}

NavValues == {0, 990, 1000, 1100}

NavRows == [date : Days, nav : NavValues]

\* Short histories: any rows in any order, dates repeated or not.
ShortHistories == SeqsUpTo(NavRows, MaxRows)

LongValues == {0, 1000, 1100}

\* Long histories: one row a day from day -345 on, the net value a until
\* day k and b after it.
LongHistories ==
    {[i \in 1..n |-> [date |-> i - 346, nav |-> IF i <= k THEN a ELSE b]] :
        <<n, k, a, b>> \in (MinReturns..MaxLong) \X (0..MaxLong) \X LongValues \X LongValues}

NavFetches == Fetches(Tables(ShortHistories \cup LongHistories))

\* datetime.now(): midnight of day 10 or of day 20, or one tick after it
Clocks == {Timedelta(10), Timedelta(20), Timedelta(20) + 1}

Holdings == {[i \in 1..n |-> [code |-> i, name |-> i, share |-> i, price |-> i]] :
                n \in 0..MaxHoldings}

PortfolioFetches ==
    Fetches(Tables(Holdings) \cup {[cols |-> FALSE, rows |-> r] : r \in Holdings})

InfoRows == [item : {"fund full name", "fund type", "manager"}, value : {"A", "B"}]

InfoTables == SeqsUpTo(InfoRows, 2)

InfoFetches ==
    Fetches(Tables(InfoTables) \cup {[cols |-> FALSE, rows |-> r] : r \in InfoTables})

\* ------------------------------------------------------------------ actions
Init ==
    /\ pc = "idle"
    /\ op = "none"
    /\ fetched = Failure
    /\ now = 0
    /\ result = Return(<<>>)

Called(name, ak, clock, res) ==
    /\ pc' = "done"
    /\ op' = name
    /\ fetched' = ak
    /\ now' = clock
    /\ result' = res

GetFundNetValue ==
    /\ pc = "idle"
    /\ \E ak \in NavFetches, clock \in Clocks :
          Called("get_fund_net_value", ak, clock, get_fund_net_value(ak, clock))

CalculateFundReturn ==
    /\ pc = "idle"
    /\ \E ak \in NavFetches, clock \in Clocks :
          \E res \in calculate_fund_return(ak, clock) :
             Called("calculate_fund_return", ak, clock, res)

GetFundPortfolio ==
    /\ pc = "idle"
    /\ \E ak \in PortfolioFetches, clock \in Clocks :
          Called("get_fund_portfolio", ak, clock, get_fund_portfolio(ak))

CalculateRiskIndex ==
    /\ pc = "idle"
    /\ \E ak \in NavFetches, clock \in Clocks :
          \E res \in calculate_risk_index(ak, clock) :
             Called("calculate_risk_index", ak, clock, res)

GetFundBasicInfo ==
    /\ pc = "idle"
    /\ \E ak \in InfoFetches, clock \in Clocks :
          Called("get_fund_basic_info", ak, clock, get_fund_basic_info(ak))

\* The caller takes the result; the service keeps nothing between calls.
Deliver ==
    /\ pc = "done"
    /\ pc' = "idle"
    /\ op' = "none"
    /\ fetched' = Failure
    /\ now' = 0
    /\ result' = Return(<<>>)

Next ==
    \/ GetFundNetValue
    \/ CalculateFundReturn
    \/ GetFundPortfolio
    \/ CalculateRiskIndex
    \/ GetFundBasicInfo
    \/ Deliver

Spec == Init /\ [][Next]_vars

\* ------------------------------------------------- vocabulary of the claims
Done(name) == pc = "done" /\ op = name

\* The net-value series the call worked on: what get_fund_net_value gave it.
Series == get_fund_net_value(fetched, now).value

Entries(S) == {S[i] : i \in DOMAIN S}

UniqueDates(S) == \A i, j \in DOMAIN S : i # j => S[i].date # S[j].date

AllPositive(S) == \A i \in DOMAIN S : S[i].nav > 0

LatestEntry(S) == CHOOSE e \in Entries(S) : \A i \in DOMAIN S : S[i].date <= e.date

EarliestEntry(S) == CHOOSE e \in Entries(S) : \A i \in DOMAIN S : e.date <= S[i].date

Cutoff(latest, l) == latest.date - Timedelta(Lookback[l])

HasBaseline(S, cutoff) == \E i \in DOMAIN S : S[i].date <= cutoff

\* The last observation at or before the cutoff.
Baseline(S, cutoff) ==
    CHOOSE e \in Entries(S) :
       /\ e.date <= cutoff
       /\ \A i \in DOMAIN S : S[i].date <= cutoff => S[i].date <= e.date

Percent(neg, hundredths) ==
    [kind |-> "num", neg |-> neg, hundredths |-> hundredths, text |-> "", suffix |-> "%"]

Computed(s) == s.kind \in {"num", "special"}

\* ---------------------------------------------------------------------- C1
\* C1: every call ends by returning a value, never by raising; and when the
\* fetch raised, get_fund_net_value returns the empty series,
\* get_fund_portfolio the failure string and get_fund_basic_info the
\* unknown/unknown mapping.
C1_NoExceptionEscapes ==
    pc = "done" =>
        /\ ~result.exc
        /\ fetched.raises =>
              CASE op = "get_fund_net_value" -> result.value = <<>>
                [] op = "get_fund_portfolio" -> result.value = Text(PortfolioFailed)
                [] op = "get_fund_basic_info" -> result.value = UnknownInfo
                [] OTHER -> TRUE

C1_Witness ==
    /\ Done("get_fund_basic_info")
    /\ fetched.raises
    /\ result = Return(UnknownInfo)

\* ---------------------------------------------------------------------- C2
\* C2: on an empty net-value series calculate_fund_return maps each of the
\* four labels to the no-data sentinel and calculate_risk_index gives the
\* no-data sentinel for both the drawdown and the Sharpe ratio, without
\* raising.
C2_EmptySeriesNoData ==
    (pc = "done" /\ op \in {"calculate_fund_return", "calculate_risk_index"}
        /\ Series = <<>>) =>
        /\ ~result.exc
        /\ IF op = "calculate_fund_return"
           THEN /\ DOMAIN result.value = Labels
                /\ \A l \in Labels : result.value[l] = Text(NoData)
           ELSE /\ result.value.max_drawdown = Text(NoData)
                /\ result.value.sharpe = Text(NoData)

\* A fetched history whose rows are all older than a year: the series is empty.
C2_Witness ==
    /\ Done("calculate_fund_return")
    /\ ~fetched.raises
    /\ fetched.table.rows # <<>>
    /\ Series = <<>>
    /\ result.value["1y"] = Text(NoData)

\* ---------------------------------------------------------------------- C3
ExpectedReturn(S, latest, cutoff) ==
    Format2(return_rate(latest.nav, Baseline(S, cutoff).nav), "%")

BaselineRule(S, latest) ==
    \A l \in Labels :
       HasBaseline(S, Cutoff(latest, l)) =>
          result.value[l] = ExpectedReturn(S, latest, Cutoff(latest, l))

\* C3: on a non-empty series with unique dates, in any input order, each
\* window that has an entry at or before its cutoff gets
\* (latest - baseline) / baseline * 100, the baseline being the entry with
\* the largest date at or before the cutoff and latest the value at the
\* maximum date.
C3_BaselineIsLastAtOrBeforeCutoff ==
    (Done("calculate_fund_return") /\ Series # <<>> /\ UniqueDates(Series)) =>
        /\ ~result.exc
        /\ BaselineRule(Series, LatestEntry(Series))

\* The series (1.000, 1.100 ten days later, 0.990 ten days after that), given
\* out of date order, read on the last day: the 1-week return is -10.00%.
C3_Witness ==
    /\ Done("calculate_fund_return")
    /\ now = Timedelta(20)
    /\ fetched.table.rows = << [date |-> 20, nav |-> 990],
                               [date |-> -345, nav |-> 1000],
                               [date |-> 10, nav |-> 1100] >>
    /\ result.value["1w"] = Percent(TRUE, 1000)

\* ---------------------------------------------------------------------- C4
InsufficientRule(S, latest, earliest) ==
    \A l \in Labels :
       /\ (result.value[l] = Text(Insufficient)) <=> ~HasBaseline(S, Cutoff(latest, l))
       /\ Timedelta(Lookback[l]) > latest.date - earliest.date
             => result.value[l] = Text(Insufficient)

\* C4: on a non-empty series a label is the insufficient-data sentinel
\* exactly when no entry is dated at or before latest date - lookback; that
\* sentinel differs from the no-data one; a lookback longer than the span of
\* the series gives it.
C4_InsufficientIffNoBaseline ==
    (Done("calculate_fund_return") /\ Series # <<>>) =>
        /\ ~result.exc
        /\ Text(Insufficient) # Text(NoData)
        /\ InsufficientRule(Series, LatestEntry(Series), EarliestEntry(Series))

C4_Witness ==
    /\ Done("calculate_fund_return")
    /\ Series # <<>>
    /\ Computed(result.value["1w"])
    /\ ~HasBaseline(Series, Cutoff(LatestEntry(Series), "1y"))
    /\ result.value["1y"] = Text(Insufficient)

\* ---------------------------------------------------------------------- C5
ZeroBaselineRule(S, latest) ==
    \A l \in Labels :
       (/\ HasBaseline(S, Cutoff(latest, l))
        /\ Baseline(S, Cutoff(latest, l)).nav = 0) =>
          \/ result.exc
          \/ result.value[l].kind = "text"

\* C5: when the baseline selected for a window is zero, the call signals an
\* error for that label (it raises or gives a sentinel) instead of an
\* infinite or not-a-number return.
C5_ZeroBaselineSignalsError ==
    (Done("calculate_fund_return") /\ Series # <<>> /\ UniqueDates(Series)) =>
        ZeroBaselineRule(Series, LatestEntry(Series))

\* ---------------------------------------------------------------------- C6
NonDecreasing(S) ==
    \A i, j \in DOMAIN S :
       /\ S[i].date < S[j].date => S[i].nav <= S[j].nav
       /\ S[i].date = S[j].date => S[i].nav = S[j].nav

\* C6: a non-empty series of positive values that never falls in date order
\* has a maximum drawdown of 0.
C6_MonotoneHasNoDrawdown ==
    (Done("calculate_risk_index") /\ Series # <<>> /\ AllPositive(Series)
        /\ NonDecreasing(Series)) =>
        /\ ~result.exc
        /\ result.value.max_drawdown = Percent(FALSE, 0)

C6_Witness ==
    /\ Done("calculate_risk_index")
    /\ Len(Series) = 3
    /\ AllPositive(Series)
    /\ NonDecreasing(Series)
    /\ EarliestEntry(Series).nav < LatestEntry(Series).nav
    /\ result.value.max_drawdown = Percent(FALSE, 0)

\* ---------------------------------------------------------------------- C7
StrictlyDecreasing(S) ==
    /\ UniqueDates(S)
    /\ \A i, j \in DOMAIN S : S[i].date < S[j].date => S[i].nav > S[j].nav

FirstToLast(first, last) ==
    Format2(FTimes100(FDiv(last.nav - first.nav, first.nav)), "%")

\* C7: a strictly decreasing series of n >= 2 positive values has the
\* maximum drawdown (last - first) / first * 100.
C7_DecreasingDrawdownFirstToLast ==
    (Done("calculate_risk_index") /\ Len(Series) >= 2 /\ AllPositive(Series)
        /\ StrictlyDecreasing(Series)) =>
        /\ ~result.exc
        /\ result.value.max_drawdown =
              FirstToLast(EarliestEntry(Series), LatestEntry(Series))

\* 1.100, 1.000, 0.990: the drawdown is (0.990 - 1.100) / 1.100 = -10.00%.
C7_Witness ==
    /\ Done("calculate_risk_index")
    /\ Len(Series) = 3
    /\ AllPositive(Series)
    /\ StrictlyDecreasing(Series)
    /\ result.value.max_drawdown = Percent(TRUE, 1000)

\* ---------------------------------------------------------------------- C8
ReturnCountRule(S) ==
    \A df \in SortValues(S) : Len(daily_returns(df)) = Len(S) - 1

\* C8: a non-empty series of n valid (positive) entries has n - 1 daily
\* returns; the Sharpe ratio is the insufficient-data sentinel exactly when
\* n - 1 < 30, and the maximum drawdown is computed all the same.
C8_SharpeNeedsThirtyReturns ==
    (Done("calculate_risk_index") /\ Series # <<>> /\ AllPositive(Series)) =>
        /\ ~result.exc
        /\ ReturnCountRule(Series)
        /\ (result.value.sharpe = Text(Insufficient)) <=> (Len(Series) - 1 < MinReturns)
        /\ result.value.max_drawdown.kind = "num"

\* Thirty entries: twenty-nine returns, no Sharpe ratio, a drawdown.
C8_Witness ==
    /\ Done("calculate_risk_index")
    /\ AllPositive(Series)
    /\ Len(Series) = MinReturns
    /\ result.value.sharpe = Text(Insufficient)
    /\ result.value.max_drawdown.kind = "num"

\* ---------------------------------------------------------------------- C9
Constant(S) == \A i \in DOMAIN S : S[i].nav = S[1].nav

\* C9: a constant series of at least 31 entries that yields at least 30
\* daily returns (its value is not zero: 0/0 is dropped as not-a-number)
\* has the Sharpe ratio 0.00, with no division by the zero deviation.
C9_FlatSeriesSharpeZero ==
    (Done("calculate_risk_index") /\ Len(Series) >= MinReturns + 1
        /\ Constant(Series) /\ AllPositive(Series)) =>
        /\ ~result.exc
        /\ result.value.sharpe =
              [kind |-> "num", neg |-> FALSE, hundredths |-> 0, text |-> "", suffix |-> ""]

C9_Witness ==
    /\ Done("calculate_risk_index")
    /\ Len(Series) = MinReturns + 1
    /\ Constant(Series)
    /\ AllPositive(Series)
    /\ result.value.sharpe.kind = "num"
    /\ result.value.sharpe.hundredths = 0

\* --------------------------------------------------------------------- C10
\* A fetched history with at least one row, none dated after the fetch time.
PastHistory ==
    /\ Done("calculate_fund_return")
    /\ ~fetched.raises
    /\ fetched.table.cols
    /\ fetched.table.rows # <<>>
    /\ \A i \in DOMAIN fetched.table.rows :
          ToDatetime(fetched.table.rows[i].date) <= now

\* Some row is dated exactly 365 days before the fetch time and the latest
\* row is dated at the fetch time.
ExactYear ==
    /\ \E i \in DOMAIN fetched.table.rows :
          ToDatetime(fetched.table.rows[i].date) = now - Timedelta(YearDays)
    /\ \E i \in DOMAIN fetched.table.rows :
          ToDatetime(fetched.table.rows[i].date) = now

\* Some row is dated within the 365 days before the fetch time.
WithinYear ==
    \E i \in DOMAIN fetched.table.rows :
       ToDatetime(fetched.table.rows[i].date) >= now - Timedelta(YearDays)

\* C10 as stated: the 1-year label is computed only in the exact-year case
\* and is the insufficient-data sentinel in every other case.
C10_OneYearInsufficientOtherwise ==
    PastHistory =>
        /\ ~result.exc
        /\ Computed(result.value["1y"]) => ExactYear
        /\ ~ExactYear => result.value["1y"] = Text(Insufficient)

\* C10 as amended: the 1-year label is computed only in the exact-year case;
\* in every other case it is the insufficient-data sentinel when some row is
\* dated within the 365 days before the fetch time, and the no-data sentinel
\* when none is.
C10_OneYearNeverComputedOtherwise ==
    PastHistory =>
        /\ ~result.exc
        /\ Computed(result.value["1y"]) => ExactYear
        /\ ~ExactYear =>
              result.value["1y"] =
                 IF WithinYear THEN Text(Insufficient) ELSE Text(NoData)

\* A history that reaches back exactly 365 days, fetched at midnight of its
\* latest day: the one case with a computed 1-year return.
C10_Witness ==
    /\ PastHistory
    /\ ExactYear
    /\ Computed(result.value["1y"])

====
